---------------------------- MODULE Spec2Model ----------------------------
(***************************************************************************)
(* A model of fstab-rust (src/lib.rs): open_fstab, parse_device and the    *)
(* error conversions.  Text is modelled as a sequence of one-character     *)
(* strings, so that trimming, tokenising, prefix stripping, comma          *)
(* splitting and integer parsing are computed character by character.      *)
(***************************************************************************)
EXTENDS Integers, Sequences, FiniteSets, TLC

(***************************************************************************)
(* Bounds of the model.                                                    *)
(***************************************************************************)
\* lines of a file in the whole-file specification
MaxLines == 3
\* whitespace-separated tokens of a line in the one-line specification
MaxTokens == 7

(***************************************************************************)
(* Characters and text primitives of the Rust standard library, as the     *)
(* source uses them.                                                       *)
(***************************************************************************)
\* char::is_whitespace, restricted to the characters the inputs contain
IsWhitespace(c) == c \in {" ", "\t"}

DigitChars == <<"0", "1", "2", "3", "4", "5", "6", "7", "8", "9">>

IsDigit(c) == \E i \in 1..10 : DigitChars[i] = c

\* char::to_digit(10) of a decimal digit
DigitVal(c) == (CHOOSE i \in 1..10 : DigitChars[i] = c) - 1

\* str::starts_with
StartsWith(s, p) == Len(s) >= Len(p) /\ SubSeq(s, 1, Len(p)) = p

\* str::split_at(n).1
SplitAtTail(s, n) == SubSeq(s, n + 1, Len(s))

\* str::trim: drop the leading and the trailing whitespace
RECURSIVE TrimStart(_)
TrimStart(s) ==
    IF s # <<>> /\ IsWhitespace(Head(s)) THEN TrimStart(Tail(s)) ELSE s

RECURSIVE TrimEnd(_)
TrimEnd(s) ==
    IF s # <<>> /\ IsWhitespace(s[Len(s)])
    THEN TrimEnd(SubSeq(s, 1, Len(s) - 1))
    ELSE s

Trim(s) == TrimEnd(TrimStart(s))

\* str::split_whitespace, collected: the non-empty runs of non-whitespace
RECURSIVE SplitWsFrom(_, _, _)
SplitWsFrom(s, cur, acc) ==
    IF s = <<>>
    THEN IF cur = <<>> THEN acc ELSE Append(acc, cur)
    ELSE IF IsWhitespace(Head(s))
         THEN SplitWsFrom(Tail(s), <<>>,
                          IF cur = <<>> THEN acc ELSE Append(acc, cur))
         ELSE SplitWsFrom(Tail(s), Append(cur, Head(s)), acc)

SplitWhitespace(s) == SplitWsFrom(s, <<>>, <<>>)

\* str::split(","), collected: every piece between commas, empty ones kept
RECURSIVE SplitCommaFrom(_, _, _)
SplitCommaFrom(s, cur, acc) ==
    IF s = <<>>
    THEN Append(acc, cur)
    ELSE IF Head(s) = ","
         THEN SplitCommaFrom(Tail(s), <<>>, Append(acc, cur))
         ELSE SplitCommaFrom(Tail(s), Append(cur, Head(s)), acc)

\* a split that drops the empty pieces
SplitComma_DropEmpty(s) ==
    SelectSeq(SplitCommaFrom(s, <<>>, <<>>), LAMBDA x : x # <<>>)

SplitComma(s) == SplitCommaFrom(s, <<>>, <<>>)

(***************************************************************************)
(* str::parse::<usize> on a 64-bit target.  The digits are consumed left   *)
(* to right with checked_mul(10) and checked_add(digit); the first digit   *)
(* at which the prefix exceeds usize::MAX overflows.                       *)
(***************************************************************************)
UsizeMaxDigits ==
    <<"1","8","4","4","6","7","4","4","0","7","3","7","0","9","5","5","1","6","1","5">>

RECURSIVE StripZeros(_)
StripZeros(d) ==
    IF Len(d) > 1 /\ Head(d) = "0" THEN StripZeros(Tail(d)) ELSE d

\* the decimal numeral d (digits only) denotes a number above usize::MAX
ExceedsUsizeMax(d) ==
    LET c == StripZeros(d)
    IN  \/ Len(c) > Len(UsizeMaxDigits)
        \/ /\ Len(c) = Len(UsizeMaxDigits)
           /\ \E i \in 1..Len(c) :
                /\ DigitVal(c[i]) > DigitVal(UsizeMaxDigits[i])
                /\ \A j \in 1..(i - 1) : c[j] = UsizeMaxDigits[j]

RECURSIVE NatOf(_, _)
NatOf(d, acc) ==
    IF d = <<>> THEN acc ELSE NatOf(Tail(d), acc * 10 + DigitVal(Head(d)))

ParseOk(n) == [ok |-> TRUE, val |-> n, desc |-> ""]
ParseErr(d) == [ok |-> FALSE, val |-> 0, desc |-> d]

RECURSIVE ParseDigitsFrom(_, _)
ParseDigitsFrom(d, i) ==
    IF i > Len(d)
    THEN ParseOk(NatOf(StripZeros(d), 0))
    ELSE IF ~IsDigit(d[i])
         THEN ParseErr("invalid digit found in string")
         ELSE IF ExceedsUsizeMax(SubSeq(d, 1, i))
              THEN ParseErr("number too large to fit in target type")
              ELSE ParseDigitsFrom(d, i + 1)

ParseUsize(tok) ==
    IF tok = <<>>
    THEN ParseErr("cannot parse integer from empty string")
    ELSE LET digits == IF Head(tok) = "+" THEN Tail(tok) ELSE tok
         IN  IF digits = <<>>
             THEN ParseErr("cannot parse integer from empty string")
             ELSE ParseDigitsFrom(digits, 1)

(***************************************************************************)
(* The error type and its conversions.                                     *)
(***************************************************************************)
Error(kind, index, desc, text) ==
    [kind |-> kind, index |-> index, desc |-> desc, text |-> text]

\* From<std::io::Error>
FromIoError(desc) == Error("FstabNotExist", 0, desc, <<>>)

\* From<std::num::ParseIntError>
FromParseIntError(desc) == Error("NumParseError", 0, desc, <<>>)

\* a field index counted from one
FieldNotExist_OneBased(i) == Error("FieldNotExist", i + 1, "", <<>>)

FieldNotExist(i) == Error("FieldNotExist", i, "", <<>>)

TooManyFields(l) == Error("TooManyFields", 0, "", l)

Ok(list) == [tag |-> "Ok", list |-> list]
Err(e) == [tag |-> "Err", err |-> e]

(***************************************************************************)
(* parse_device.                                                           *)
(***************************************************************************)
Device(variant, payload) == [variant |-> variant, payload |-> payload]

parse_device(name) ==
    IF StartsWith(name, <<"U","U","I","D","=">>)
    THEN Device("Uuid", SplitAtTail(name, 5))
    ELSE IF StartsWith(name, <<"L","A","B","E","L","=">>)
    THEN Device("Label", SplitAtTail(name, 6))
    ELSE IF StartsWith(name, <<"P","A","R","T","U","U","I","D","=">>)
    THEN Device("PartUuid", SplitAtTail(name, 5))
    ELSE IF StartsWith(name, <<"P","A","R","T","L","A","B","E","L","=">>)
    THEN Device("PartLabel", SplitAtTail(name, 6))
    ELSE Device("MountPoint", name)

(***************************************************************************)
(* The body of the loop of open_fstab for one decoded line.                *)
(***************************************************************************)
\* the test of the `continue`, with the empty-line half left out
IsSkipped_CommentOnly(l) == StartsWith(l, <<"#">>)

\* l.starts_with("#") || l.len() == 0
IsSkipped(l) == StartsWith(l, <<"#">>) \/ Len(l) = 0

\* a dump flag that is set for every parsed value
DumpFlag_Always(x) == x >= 0

\* |x| if x > 0 { true } else { false }
DumpFlag(x) == x > 0

\* an extra-token test that lets a seventh token pass
HasExtraToken_OffByOne(tabs) == Len(tabs) > 7

\* tabs.next().is_some() after six calls of tabs.next()
HasExtraToken(tabs) == Len(tabs) > 6

Fstab(device, dir, device_type, options, dump, fsck) ==
    [device |-> device, dir |-> dir, device_type |-> device_type,
     options |-> options, dump |-> dump, fsck |-> fsck]

NoEntry == Fstab(Device("MountPoint", <<>>), <<>>, <<>>, <<>>, FALSE, 0)

FieldsOk(e) == [ok |-> TRUE, entry |-> e, err |-> Error("", 0, "", <<>>)]
FieldsErr(e) == [ok |-> FALSE, entry |-> NoEntry, err |-> e]

\* the struct literal Fstab { .. }: its fields are evaluated in order and
\* the first `?` that fails leaves the function
ParseFields(tabs) ==
    IF Len(tabs) < 1 THEN FieldsErr(FieldNotExist(0))
    ELSE IF Len(tabs) < 2 THEN FieldsErr(FieldNotExist(1))
    ELSE IF Len(tabs) < 3 THEN FieldsErr(FieldNotExist(2))
    ELSE IF Len(tabs) < 4 THEN FieldsErr(FieldNotExist(3))
    ELSE LET dump == IF Len(tabs) >= 5 THEN ParseUsize(tabs[5]) ELSE ParseOk(0)
             fsck == IF Len(tabs) >= 6 THEN ParseUsize(tabs[6]) ELSE ParseOk(0)
         IN  IF ~dump.ok THEN FieldsErr(FromParseIntError(dump.desc))
             ELSE IF ~fsck.ok THEN FieldsErr(FromParseIntError(fsck.desc))
             ELSE FieldsOk(Fstab(parse_device(tabs[1]), tabs[2], tabs[3],
                                 SplitComma(tabs[4]), DumpFlag(dump.val),
                                 fsck.val))

\* what one iteration does: go on with the loop, or return
Continue(list) == [pc |-> "loop", list |-> list, result |-> Ok(<<>>)]
Return(list, r) == [pc |-> "done", list |-> list, result |-> r]

\* an invalid line is dropped and the loop goes on
LineOutcome_SkipInvalid(text, list) ==
    LET l == Trim(text)
    IN  IF IsSkipped(l)
        THEN Continue(list)
        ELSE LET tabs == SplitWhitespace(l)
                 f == ParseFields(tabs)
             IN  IF ~f.ok \/ HasExtraToken(tabs)
                 THEN Continue(list)
                 ELSE Continue(Append(list, f.entry))

LineOutcome(text, list) ==
    LET l == Trim(text)
    IN  IF IsSkipped(l)
        THEN Continue(list)
        ELSE LET tabs == SplitWhitespace(l)
                 f == ParseFields(tabs)
             IN  IF ~f.ok
                 THEN Return(list, Err(f.err))
                 ELSE IF HasExtraToken(tabs)
                      THEN Return(Append(list, f.entry), Err(TooManyFields(l)))
                      ELSE Continue(Append(list, f.entry))

\* the read error leaves the function through `?`
ReadErrorOutcome_Propagate(desc, list) == Return(list, Err(FromIoError(desc)))

\* `if let Ok(l) = l { .. }` has no else: an Err item ends the iteration
ReadErrorOutcome(desc, list) == Continue(list)

(***************************************************************************)
(* The state: the call's argument, the file system it runs against, and    *)
(* the position, locals and result of open_fstab.                          *)
(***************************************************************************)
VARIABLES arg, fsys, pc, reader, cur, fstab_item_list, result

vars == <<arg, fsys, pc, reader, cur, fstab_item_list, result>>

FSTAB_PATH == "/etc/fstab"
OtherPath == "/mnt/fstab"
Paths == {FSTAB_PATH, OtherPath}

None == [some |-> FALSE, path |-> ""]
Some(p) == [some |-> TRUE, path |-> p]

\* match path { Some(p) => p, _ => FSTAB_PATH }
PathOf(a) == IF a.some THEN a.path ELSE FSTAB_PATH

\* what a path holds: nothing that can be opened, a directory (it opens,
\* and every read of it fails), or a file of lines
Absent == [kind |-> "absent", lines |-> <<>>]
Directory == [kind |-> "dir", lines |-> <<>>]
File(lines) == [kind |-> "file", lines |-> lines]

\* the items of BufRead::lines: a decoded line, or a read error
LineOk(text) == [ok |-> TRUE, text |-> text, desc |-> ""]
LineErr(desc) == [ok |-> FALSE, text |-> <<>>, desc |-> desc]

NoReader == [kind |-> "none", rest |-> <<>>]

(***************************************************************************)
(* open_fstab, one action per step of its control flow.                    *)
(***************************************************************************)
\* File::open(..)? and the locals set up before the loop
Open ==
    /\ pc = "start"
    /\ IF fsys[PathOf(arg)].kind = "absent"
       THEN /\ pc' = "done"
            /\ result' = Err(FromIoError("entity not found"))
            /\ reader' = reader
       ELSE /\ pc' = "loop"
            /\ result' = result
            /\ reader' = [kind |-> fsys[PathOf(arg)].kind,
                          rest |-> fsys[PathOf(arg)].lines]
    /\ UNCHANGED <<arg, fsys, cur, fstab_item_list>>

\* reader.lines().next() at the head of the loop; None ends the loop and
\* the function returns Ok(fstab_item_list)
LinesNext ==
    /\ pc = "loop"
    /\ IF reader.kind = "dir"
       THEN /\ cur' = <<LineErr("Is a directory")>>
            /\ pc' = "body"
            /\ UNCHANGED <<reader, result>>
       ELSE IF reader.rest = <<>>
            THEN /\ pc' = "done"
                 /\ result' = Ok(fstab_item_list)
                 /\ UNCHANGED <<reader, cur>>
            ELSE /\ cur' = <<Head(reader.rest)>>
                 /\ reader' = [reader EXCEPT !.rest = Tail(reader.rest)]
                 /\ pc' = "body"
                 /\ UNCHANGED result
    /\ UNCHANGED <<arg, fsys, fstab_item_list>>

\* one pass through the body of the loop
Body ==
    /\ pc = "body"
    /\ LET item == cur[1]
           out == IF item.ok
                  THEN LineOutcome(item.text, fstab_item_list)
                  ELSE ReadErrorOutcome(item.desc, fstab_item_list)
       IN  /\ pc' = out.pc
           /\ fstab_item_list' = out.list
           /\ result' = IF out.pc = "done" THEN out.result ELSE result
    /\ cur' = <<>>
    /\ UNCHANGED <<arg, fsys, reader>>

Next == Open \/ LinesNext \/ Body

(***************************************************************************)
(* The inputs.                                                             *)
(***************************************************************************)
Args == {None, Some(FSTAB_PATH), Some(OtherPath)}

\* the lines of the whole-file specification: valid lines of 4, 5 and 6
\* tokens, a comment, blank lines, and one line for each kind of error
SampleTexts ==
    { <<"/","d"," ","/"," ","e"," ","r","w">>,
      <<"U","U","I","D","=","a"," ","/","b"," ","x"," ","a",",","b"," ","1"," ","2">>,
      <<" ","\t","/","d"," "," ","/"," ","e"," ","r","w"," ","0"," ">>,
      <<" ","#","c">>,
      <<>>,
      <<" ","\t">>,
      <<"/","d"," ","/">>,
      <<"/","d"," ","/"," ","e"," ","r","w"," ","x">>,
      <<"/","d"," ","/"," ","e"," ","r","w"," ","0"," ","0"," ","z">> }

SampleItems == {LineOk(t) : t \in SampleTexts} \cup {LineErr("stream did not contain valid UTF-8")}

RECURSIVE SeqsUpTo(_, _)
SeqsUpTo(S, n) ==
    IF n = 0 THEN {<<>>}
    ELSE LET shorter == SeqsUpTo(S, n - 1)
         IN  shorter \cup {Append(s, x) : s \in {t \in shorter : Len(t) = n - 1}, x \in S}

Resources == {Absent, Directory} \cup {File(ls) : ls \in SeqsUpTo(SampleItems, MaxLines)}

InitLocals ==
    /\ pc = "start"
    /\ reader = NoReader
    /\ cur = <<>>
    /\ fstab_item_list = <<>>
    /\ result = Ok(<<>>)

Init ==
    /\ arg \in Args
    /\ \E r \in Resources :
          fsys = [p \in Paths |->
                    IF p = PathOf(arg) THEN r
                    ELSE IF r = Absent THEN File(<<LineOk(<<"/","d"," ","/">>)>>)
                    ELSE Absent]
    /\ InitLocals

Spec == Init /\ [][Next]_vars

\* the loop is ordinary sequential code: a step that can be taken is taken
FairSpec == Init /\ [][Next]_vars /\ WF_vars(Next)

(***************************************************************************)
(* The one-line inputs: a file of a single line made of 1..MaxTokens       *)
(* tokens, each drawn from the words of its position, with three styles    *)
(* of leading, separating and trailing whitespace.                         *)
(***************************************************************************)
DeviceWords ==
    { <<"/","d">>,
      <<"U","U","I","D","=","a">>,
      <<"L","A","B","E","L","=","b">>,
      <<"P","A","R","T","U","U","I","D","=","a">>,
      <<"P","A","R","T","L","A","B","E","L","=","b">>,
      <<"L","A","B","E","L","=">> }

OptionWords == { <<"r","w">>, <<"a",",","b">>, <<",">>, <<"a",",",",","b">> }

DumpWords == { <<"0">>, <<"2">>, <<"x">>, <<"+","1">> }

FsckWords ==
    { <<"0">>, <<"3">>, <<"-","1">>, <<"0","0","7">>,
      <<"1","8","4","4","6","7","4","4","0","7","3","7","0","9","5","5","1","6","1","6">> }

WordsAt(i) ==
    IF i = 1 THEN DeviceWords
    ELSE IF i = 2 THEN {<<"/">>}
    ELSE IF i = 3 THEN {<<"e">>}
    ELSE IF i = 4 THEN OptionWords
    ELSE IF i = 5 THEN DumpWords
    ELSE IF i = 6 THEN FsckWords
    ELSE {<<"z">>}

RECURSIVE TokenLists(_)
TokenLists(k) ==
    IF k = 0 THEN {<<>>}
    ELSE {Append(s, w) : s \in TokenLists(k - 1), w \in WordsAt(k)}

WsStyles ==
    { [lead |-> <<>>, sep |-> <<" ">>, trail |-> <<>>],
      [lead |-> <<" ">>, sep |-> <<"\t"," ">>, trail |-> <<"\t">>],
      [lead |-> <<"\t">>, sep |-> <<" "," ">>, trail |-> <<" ">>] }

RECURSIVE JoinWith(_, _)
JoinWith(toks, sep) ==
    IF toks = <<>> THEN <<>>
    ELSE IF Len(toks) = 1 THEN toks[1]
    ELSE toks[1] \o sep \o JoinWith(Tail(toks), sep)

LineTexts ==
    { st.lead \o JoinWith(toks, st.sep) \o st.trail :
        st \in WsStyles, toks \in UNION {TokenLists(k) : k \in 1..MaxTokens} }

LineInit ==
    /\ arg = None
    /\ \E t \in LineTexts :
          fsys = [p \in Paths |-> IF p = FSTAB_PATH THEN File(<<LineOk(t)>>) ELSE Absent]
    /\ InitLocals

LineSpec == LineInit /\ [][Next]_vars

(***************************************************************************)
(* The format of a line as spec.md states it, defined on the characters    *)
(* of the raw line and independently of the operators above.               *)
(***************************************************************************)
NonWs(text) == {i \in 1..Len(text) : ~IsWhitespace(text[i])}

MinOf(S) == CHOOSE i \in S : \A j \in S : i <= j
MaxOf(S) == CHOOSE i \in S : \A j \in S : j <= i

\* the line without its leading and trailing whitespace
TrimmedText(text) ==
    IF NonWs(text) = {} THEN <<>>
    ELSE SubSeq(text, MinOf(NonWs(text)), MaxOf(NonWs(text)))

\* a data line: not blank, and its first visible character is not '#'
IsDataLine(text) == NonWs(text) # {} /\ text[MinOf(NonWs(text))] # "#"

\* a token is a maximal run of non-whitespace characters
TokenStarts(text) ==
    {i \in NonWs(text) : i = 1 \/ IsWhitespace(text[i - 1])}

NumTokens(text) == Cardinality(TokenStarts(text))

\* the k-th token, k counted from one
TokenAt(text, k) ==
    LET b == CHOOSE i \in TokenStarts(text) :
                Cardinality({j \in TokenStarts(text) : j <= i}) = k
        e == MaxOf({j \in b..Len(text) : \A m \in b..j : ~IsWhitespace(text[m])})
    IN  SubSeq(text, b, e)

NumeralDigits(tok) == IF tok # <<>> /\ Head(tok) = "+" THEN Tail(tok) ELSE tok

\* an unsigned decimal integer that fits the machine word
IsNumeral(tok) ==
    LET d == NumeralDigits(tok)
    IN  /\ d # <<>>
        /\ \A i \in 1..Len(d) : IsDigit(d[i])
        /\ ~ExceedsUsizeMax(d)

RECURSIVE Pow10(_)
Pow10(n) == IF n = 0 THEN 1 ELSE 10 * Pow10(n - 1)

RECURSIVE PlaceSum(_, _)
PlaceSum(d, i) ==
    IF i > Len(d) THEN 0
    ELSE DigitVal(d[i]) * Pow10(Len(d) - i) + PlaceSum(d, i + 1)

NumeralValue(tok) == PlaceSum(StripZeros(NumeralDigits(tok)), 1)

CommaCount(tok) == Cardinality({i \in 1..Len(tok) : tok[i] = ","})

\* a valid data line: 4 to 6 tokens, the fifth and sixth numerals
LineValid(text) ==
    /\ IsDataLine(text)
    /\ NumTokens(text) \in 4..6
    /\ NumTokens(text) >= 5 => IsNumeral(TokenAt(text, 5))
    /\ NumTokens(text) >= 6 => IsNumeral(TokenAt(text, 6))

\* the entry of a valid data line
ExpectedEntry(text) ==
    LET n == NumTokens(text)
    IN  [device |-> parse_device(TokenAt(text, 1)),
         dir |-> TokenAt(text, 2),
         device_type |-> TokenAt(text, 3),
         options |-> SplitComma(TokenAt(text, 4)),
         dump |-> IF n >= 5 THEN NumeralValue(TokenAt(text, 5)) # 0 ELSE FALSE,
         fsck |-> IF n >= 6 THEN NumeralValue(TokenAt(text, 6)) ELSE 0]

\* the kind of error of an invalid data line, fields taken in order
ExpectedErrorKind(text) ==
    LET n == NumTokens(text)
    IN  IF n < 4 THEN "FieldNotExist"
        ELSE IF n >= 5 /\ ~IsNumeral(TokenAt(text, 5)) THEN "NumParseError"
        ELSE IF n >= 6 /\ ~IsNumeral(TokenAt(text, 6)) THEN "NumParseError"
        ELSE "TooManyFields"

\* the file the call reads, and its state once the call has returned
TargetPath == IF arg = None THEN "/etc/fstab" ELSE arg.path
Target == fsys[TargetPath]
Returned == pc = "done"
IsErrOf(r, kind) == r.tag = "Err" /\ r.err.kind = kind

AllDecoded(lines) == \A i \in 1..Len(lines) : lines[i].ok
DataTexts(lines) ==
    LET d == SelectSeq(lines, LAMBDA it : it.ok /\ IsDataLine(it.text))
    IN  [i \in 1..Len(d) |-> d[i].text]
InvalidAt(lines) ==
    {i \in 1..Len(lines) :
        lines[i].ok /\ IsDataLine(lines[i].text) /\ ~LineValid(lines[i].text)}

\* the single line of a one-line file
TheLine == Target.lines[1].text
OneLine == Target.kind = "file" /\ Len(Target.lines) = 1 /\ Target.lines[1].ok

(***************************************************************************)
(* The claims.                                                             *)
(***************************************************************************)
\* C1: a file that opens, whose lines all decode and whose data lines are
\* all valid, yields Ok with exactly one entry per data line, in file
\* order; comments and blank lines give no entry and no error.
C1_OneEntryPerDataLine ==
    (/\ Returned
     /\ Target.kind = "file"
     /\ AllDecoded(Target.lines)
     /\ InvalidAt(Target.lines) = {})
    => LET data == DataTexts(Target.lines)
       IN  result = [tag |-> "Ok",
                     list |-> [i \in 1..Len(data) |-> ExpectedEntry(data[i])]]

\* C1 witness: a comment between two different valid lines, returned as the
\* two entries in file order.
C1_Witness ==
    /\ Returned
    /\ Target.kind = "file"
    /\ Len(Target.lines) = 3
    /\ AllDecoded(Target.lines)
    /\ LineValid(Target.lines[1].text)
    /\ ~IsDataLine(Target.lines[2].text)
    /\ LineValid(Target.lines[3].text)
    /\ Target.lines[1].text # Target.lines[3].text
    /\ result.tag = "Ok"
    /\ Len(result.list) = 2
    /\ result.list[1] # result.list[2]

\* C2: with an invalid data line in the file the call returns Err, of the
\* kind (and, where it has them, index and line text) of the first invalid
\* data line, whatever follows it; the Err carries no entries.
C2_FailFast ==
    (Returned /\ Target.kind = "file" /\ InvalidAt(Target.lines) # {})
    => LET text == Target.lines[MinOf(InvalidAt(Target.lines))].text
           kind == ExpectedErrorKind(text)
       IN  /\ result.tag = "Err"
           /\ DOMAIN result = {"tag", "err"}
           /\ result.err.kind = kind
           /\ kind = "FieldNotExist" => result.err.index = NumTokens(text)
           /\ kind = "TooManyFields" => result.err.text = TrimmedText(text)

\* C2 witness: a valid line, then a line with too many fields, then a line
\* with a bad number; the result is the error of the second line.
C2_Witness ==
    /\ Returned
    /\ Target.kind = "file"
    /\ Len(Target.lines) = 3
    /\ AllDecoded(Target.lines)
    /\ InvalidAt(Target.lines) = {2, 3}
    /\ ExpectedErrorKind(Target.lines[3].text) = "NumParseError"
    /\ IsErrOf(result, "TooManyFields")
    /\ fstab_item_list # <<>>

\* C3 as stated: every data line of 7 or more tokens fails with
\* TooManyFields carrying the trimmed line, whatever tokens 4 and 5 hold.
C3_TooManyFieldsAlways ==
    (Returned /\ OneLine /\ NumTokens(TheLine) >= 7)
    => result = [tag |-> "Err",
                 err |-> [kind |-> "TooManyFields", index |-> 0, desc |-> "",
                          text |-> TrimmedText(TheLine)]]

\* C3 amended: a data line of 7 or more tokens whose tokens 4 and 5 are both
\* numerals fails with TooManyFields carrying the trimmed line; when token 4
\* or token 5 is not a numeral it fails with NumParseError instead.
C3_TooManyFieldsAfterNumbers ==
    (Returned /\ OneLine /\ NumTokens(TheLine) >= 7)
    => IF IsNumeral(TokenAt(TheLine, 5)) /\ IsNumeral(TokenAt(TheLine, 6))
       THEN result = [tag |-> "Err",
                      err |-> [kind |-> "TooManyFields", index |-> 0, desc |-> "",
                               text |-> TrimmedText(TheLine)]]
       ELSE IsErrOf(result, "NumParseError")

\* C3 witness: a line of 7 tokens with whitespace around it, refused with
\* its trimmed text.
C3_Witness ==
    /\ Returned
    /\ OneLine
    /\ NumTokens(TheLine) = 7
    /\ TrimmedText(TheLine) # TheLine
    /\ IsErrOf(result, "TooManyFields")
    /\ result.err.text = TrimmedText(TheLine)

\* C4: a data line of k < 4 tokens fails with FieldNotExist(k); a data line
\* of 4 or more tokens never fails with FieldNotExist.
C4_FieldNotExistIndex ==
    (Returned /\ OneLine /\ IsDataLine(TheLine))
    => IF NumTokens(TheLine) < 4
       THEN result = [tag |-> "Err",
                      err |-> [kind |-> "FieldNotExist",
                               index |-> NumTokens(TheLine),
                               desc |-> "", text |-> <<>>]]
       ELSE ~IsErrOf(result, "FieldNotExist")

\* C4 witness: a line of two tokens, refused with FieldNotExist(2).
C4_Witness ==
    /\ Returned
    /\ OneLine
    /\ NumTokens(TheLine) = 2
    /\ IsErrOf(result, "FieldNotExist")
    /\ result.err.index = 2

\* C5: a device field with a recognised prefix becomes the variant of that
\* prefix holding the text after the whole prefix, so that prefix and
\* payload give back the field; any other field becomes MountPoint
\* unchanged.
C5_DevicePayload ==
    (Returned /\ OneLine /\ result.tag = "Ok")
    => LET name == TokenAt(TheLine, 1)
           dev == result.list[1].device
           Case(prefix, variant) ==
               StartsWith(name, prefix)
               => dev.variant = variant /\ prefix \o dev.payload = name
           uuid == <<"U","U","I","D","=">>
           label == <<"L","A","B","E","L","=">>
           partuuid == <<"P","A","R","T","U","U","I","D","=">>
           partlabel == <<"P","A","R","T","L","A","B","E","L","=">>
       IN  /\ Case(uuid, "Uuid")
           /\ Case(label, "Label")
           /\ Case(partuuid, "PartUuid")
           /\ Case(partlabel, "PartLabel")
           /\ (\A p \in {uuid, label, partuuid, partlabel} : ~StartsWith(name, p))
              => dev = [variant |-> "MountPoint", payload |-> name]

\* C6: an absent token 4 gives dump = false and an absent token 5 gives
\* fsck = 0; a numeral at token 4 gives dump = (value # 0) and a numeral at
\* token 5 gives fsck = value; a token 4 or 5 that is no numeral fails with
\* NumParseError.
C6_OptionalNumbers ==
    (Returned /\ OneLine /\ NumTokens(TheLine) >= 4)
    => LET n == NumTokens(TheLine)
           badDump == n >= 5 /\ ~IsNumeral(TokenAt(TheLine, 5))
           badFsck == n >= 6 /\ ~IsNumeral(TokenAt(TheLine, 6))
       IN  /\ (badDump \/ badFsck) => IsErrOf(result, "NumParseError")
           /\ (~badDump /\ ~badFsck /\ n <= 6)
              => /\ result.tag = "Ok"
                 /\ Len(result.list) = 1
                 /\ result.list[1].dump =
                      IF n >= 5 THEN NumeralValue(TokenAt(TheLine, 5)) # 0 ELSE FALSE
                 /\ result.list[1].fsck =
                      IF n >= 6 THEN NumeralValue(TokenAt(TheLine, 6)) ELSE 0

\* C6 witness: a line of 6 tokens with dump "0" and fsck "007", parsed to
\* dump = false and fsck = 7.
C6_Witness ==
    /\ Returned
    /\ OneLine
    /\ NumTokens(TheLine) = 6
    /\ TokenAt(TheLine, 5) = <<"0">>
    /\ TokenAt(TheLine, 6) = <<"0","0","7">>
    /\ result.tag = "Ok"
    /\ result.list[1].dump = FALSE
    /\ result.list[1].fsck = 7

\* C7: the options of the entry of a valid data line are token 3 split at
\* every comma, empty pieces kept: commas + 1 elements, never none, no
\* element with a comma, and joined with ',' they give back token 3.
C7_OptionsSplit ==
    (Returned /\ OneLine /\ LineValid(TheLine))
    => /\ result.tag = "Ok"
       /\ Len(result.list) = 1
       /\ LET opts == result.list[1].options
              tok == TokenAt(TheLine, 4)
          IN  /\ Len(opts) = CommaCount(tok) + 1
              /\ opts # <<>>
              /\ \A i \in 1..Len(opts) : CommaCount(opts[i]) = 0
              /\ JoinWith(opts, <<",">>) = tok

\* C7 witness: the options "a,,b", split into "a", "" and "b".
C7_Witness ==
    /\ Returned
    /\ OneLine
    /\ LineValid(TheLine)
    /\ TokenAt(TheLine, 4) = <<"a",",",",","b">>
    /\ result.tag = "Ok"
    /\ result.list[1].options = << <<"a">>, <<>>, <<"b">> >>

\* C8: the call returns FstabNotExist if and only if the file at the given
\* path (/etc/fstab for None) cannot be opened; then nothing is read or
\* parsed, and after a successful open no step yields FstabNotExist.
C8_FstabNotExistIffNoOpen ==
    /\ IsErrOf(result, "FstabNotExist") => Target.kind = "absent"
    /\ (pc # "start" /\ Target.kind = "absent")
       => /\ Returned
          /\ IsErrOf(result, "FstabNotExist")
          /\ reader = NoReader
          /\ cur = <<>>
          /\ fstab_item_list = <<>>

\* C8 witness: the default path holds nothing while another path holds a
\* file, and the call with None has returned FstabNotExist.
C8_Witness ==
    /\ Returned
    /\ arg = None
    /\ fsys["/etc/fstab"].kind = "absent"
    /\ fsys[OtherPath].kind = "file"
    /\ IsErrOf(result, "FstabNotExist")
    /\ reader = NoReader

\* C9: a line the reader could not read or decode is a failure of the
\* parse: once the reader has reported an error for a line, the call does
\* not skip it and return Ok, it returns an error.
C9_ReadErrorIsFailure ==
    (/\ Returned
     /\ Target.kind = "file"
     /\ \E i \in 1..(Len(Target.lines) - Len(reader.rest)) : ~Target.lines[i].ok)
    => result.tag = "Err"

\* C10: every call of open_fstab eventually returns.
C10_EventuallyReturns == <>(pc = "done")

====
